---- MODULE Spec2Model ----
(***************************************************************************)
(* do-firewall-allowlister: the firewall rule reconciliation of            *)
(* pkg/digitalocean (Client.UpdateFirewallRules, Client.AddSSHRule and     *)
(* Client.validateAndNormalizeSources) as a state machine over the remote  *)
(* firewall, and the command line process that drives it: the daemon and   *)
(* oneshot commands running Service.UpdateFirewallRules on a cron schedule *)
(* or once, and allow-current-ip running Client.AddSSHRule.                *)
(*                                                                         *)
(* Strings that the code parses, formats or compares (addresses, CIDRs,    *)
(* port ranges) are sequences of one-character strings, so that            *)
(* source+"/32", fmt.Sprintf("%d", port), net.ParseIP and net.ParseCIDR    *)
(* are computed and not assumed.                                           *)
(***************************************************************************)
EXTENDS Integers, Sequences, FiniteSets, TLC

VARIABLES fw, call, prev, ncalls, norm, proc, cycles, retry, uniq

vars == <<fw, call, prev, ncalls, norm, proc, cycles, retry, uniq>>

\* the state of the command line process and of the service runs it starts
drivers == <<proc, cycles>>

\* the state of a call of a retry wrapper and of a call of removeDuplicates
helpers == <<retry, uniq>>

(***************************************************************************)
(* Bounds of the model.                                                    *)
(***************************************************************************)
\* longest desired rule list handed to UpdateFirewallRules
MaxRules == 2
\* number of client calls in one behaviour
MaxCalls == 2
\* number of runs of the firewall-update job in one behaviour
MaxCycles == 2
\* longest source list handed to the normalizer on its own
MaxSources == 3
\* the largest maxRetries handed to a retry wrapper
MaxRetries == 3
\* the longest list handed to removeDuplicates
MaxIPs == 4

(***************************************************************************)
(* Characters and decimal formatting.                                      *)
(***************************************************************************)
DecDigits == <<"0", "1", "2", "3", "4", "5", "6", "7", "8", "9">>

HexLower == <<"0", "1", "2", "3", "4", "5", "6", "7", "8", "9",
              "a", "b", "c", "d", "e", "f">>

HexUpper == <<"0", "1", "2", "3", "4", "5", "6", "7", "8", "9",
              "A", "B", "C", "D", "E", "F">>

IsDigit(c) == \E i \in 1..10 : DecDigits[i] = c

DigitVal(c) == (CHOOSE i \in 1..10 : DecDigits[i] = c) - 1

IsHex(c) == \E i \in 1..16 : HexLower[i] = c \/ HexUpper[i] = c

HexVal(c) == (CHOOSE i \in 1..16 : HexLower[i] = c \/ HexUpper[i] = c) - 1

RECURSIVE Utoa(_)
\* decimal digits of a natural number, most significant first
Utoa(n) == IF n < 10 THEN <<DecDigits[n + 1]>>
           ELSE Utoa(n \div 10) \o <<DecDigits[(n % 10) + 1]>>

\* fmt.Sprintf("%d", n)
Sprintf_d(n) == IF n < 0 THEN <<"-">> \o Utoa(0 - n) ELSE Utoa(n)

\* index of the first occurrence of character c in s, 0 when absent
IndexByte(s, c) == IF \E i \in 1..Len(s) : s[i] = c
                   THEN CHOOSE i \in 1..Len(s) :
                            s[i] = c /\ \A j \in 1..(i - 1) : s[j] # c
                   ELSE 0

\* s[from:] with a 1-based first index
Suffix(s, from) == SubSeq(s, from, Len(s))

(***************************************************************************)
(* The Go net package as the normalizer uses it: net.ParseIP, IP.To4 and   *)
(* net.ParseCIDR.                                                          *)
(***************************************************************************)
RECURSIVE DecValue(_)
\* value of a sequence of decimal digits
DecValue(s) == IF s = <<>> THEN 0
               ELSE DecValue(SubSeq(s, 1, Len(s) - 1)) * 10 + DigitVal(s[Len(s)])

AllDigits(s) == \A i \in 1..Len(s) : IsDigit(s[i])

\* one dotted-decimal field: 1 to 3 digits, no leading zero, at most 255
IPv4FieldOK(f) ==
    /\ Len(f) >= 1
    /\ Len(f) <= 3
    /\ AllDigits(f)
    /\ (Len(f) > 1 => f[1] # "0")
    /\ DecValue(f) <= 255

RECURSIVE SplitBy(_, _)
\* the fields of s between occurrences of the character sep
SplitBy(s, sep) ==
    IF IndexByte(s, sep) = 0 THEN <<s>>
    ELSE <<SubSeq(s, 1, IndexByte(s, sep) - 1)>>
         \o SplitBy(Suffix(s, IndexByte(s, sep) + 1), sep)

\* four dotted-decimal fields as four bytes
IPv4FromFields(f) ==
    IF Len(f) = 4 /\ \A i \in 1..4 : IPv4FieldOK(f[i])
    THEN [ok |-> TRUE, bytes |-> [i \in 1..4 |-> DecValue(f[i])]]
    ELSE [ok |-> FALSE, bytes |-> <<>>]

\* dotted-decimal IPv4: exactly four fields
ParseIPv4(s) == IPv4FromFields(SplitBy(s, "."))

RECURSIVE HexRun(_)
\* number of leading hexadecimal digits of s
HexRun(s) == IF s # <<>> /\ IsHex(s[1]) THEN 1 + HexRun(Tail(s)) ELSE 0

RECURSIVE HexValue(_)
\* value of a sequence of hexadecimal digits
HexValue(s) == IF s = <<>> THEN 0
               ELSE HexValue(SubSeq(s, 1, Len(s) - 1)) * 16 + HexVal(s[Len(s)])

IPv6Fail == [ok |-> FALSE, groups |-> <<>>, ellipsis |-> -1]

\* an embedded IPv4 address replaces the final two 16-bit fields
IPv6Embedded(v4, groups, ellipsis) ==
    IF (ellipsis < 0 /\ Len(groups) # 6) \/ Len(groups) + 2 > 8 \/ ~v4.ok
    THEN IPv6Fail
    ELSE [ok |-> TRUE,
          groups |-> groups \o <<v4.bytes[1] * 256 + v4.bytes[2],
                                  v4.bytes[3] * 256 + v4.bytes[4]>>,
          ellipsis |-> ellipsis]

RECURSIVE IPv6Loop(_, _, _)
\* what follows a field: the end, ":" and the next field, or "::"
IPv6Separator(rest, g, ellipsis) ==
    IF rest = <<>> THEN [ok |-> TRUE, groups |-> g, ellipsis |-> ellipsis]
    ELSE IF rest[1] # ":" \/ Len(rest) = 1 THEN IPv6Fail
    ELSE IF rest[2] = ":"
    THEN IF ellipsis >= 0 THEN IPv6Fail
         ELSE IF Len(rest) = 2
         THEN [ok |-> TRUE, groups |-> g, ellipsis |-> Len(g)]
         ELSE IPv6Loop(Suffix(rest, 3), g, Len(g))
    ELSE IPv6Loop(Suffix(rest, 2), g, ellipsis)

\* one field of off hexadecimal digits at the head of s
IPv6Field(s, off, groups, ellipsis) ==
    IF off = 0 \/ off > 4 THEN IPv6Fail
    ELSE IF Len(s) > off /\ s[off + 1] = "."
    THEN IPv6Embedded(ParseIPv4(s), groups, ellipsis)
    ELSE IPv6Separator(Suffix(s, off + 1),
                       Append(groups, HexValue(SubSeq(s, 1, off))), ellipsis)

\* the field loop of the IPv6 parser: s is the unread text, groups the
\* 16-bit fields read so far, ellipsis the number of fields before "::"
\* (-1 when no "::" was seen)
IPv6Loop(s, groups, ellipsis) ==
    IF Len(groups) >= 8
    THEN IF s = <<>> THEN [ok |-> TRUE, groups |-> groups, ellipsis |-> ellipsis]
         ELSE IPv6Fail
    ELSE IPv6Field(s, HexRun(s), groups, ellipsis)

\* "::" stands for the fields missing from eight, at least one
IPv6Expand(r) ==
    IF ~r.ok THEN [ok |-> FALSE, groups |-> <<>>]
    ELSE IF Len(r.groups) < 8
    THEN IF r.ellipsis < 0 THEN [ok |-> FALSE, groups |-> <<>>]
         ELSE [ok |-> TRUE,
               groups |-> SubSeq(r.groups, 1, r.ellipsis)
                          \o [i \in 1..(8 - Len(r.groups)) |-> 0]
                          \o SubSeq(r.groups, r.ellipsis + 1, Len(r.groups))]
    ELSE IF r.ellipsis >= 0 THEN [ok |-> FALSE, groups |-> <<>>]
    ELSE [ok |-> TRUE, groups |-> r.groups]

\* the text after a leading "::", or the whole text
IPv6Body(s) ==
    IF Len(s) >= 2 /\ s[1] = ":" /\ s[2] = ":" THEN Suffix(s, 3) ELSE s

\* the eight 16-bit fields of an IPv6 literal (no zone)
ParseIPv6(s) ==
    IPv6Expand(IF s = <<":", ":">>
               THEN [ok |-> TRUE, groups |-> <<>>, ellipsis |-> 0]
               ELSE IPv6Loop(IPv6Body(s), <<>>, IF IPv6Body(s) = s THEN -1 ELSE 0))

\* the 16-byte form of an IPv4 address
IPFromV4(v4) ==
    IF v4.ok
    THEN [ok |-> TRUE,
          groups |-> <<0, 0, 0, 0, 0, 65535,
                       v4.bytes[1] * 256 + v4.bytes[2],
                       v4.bytes[3] * 256 + v4.bytes[4]>>]
    ELSE [ok |-> FALSE, groups |-> <<>>]

\* net.ParseIP(s): nil, or the 16-byte form of an IPv4 or IPv6 literal; the
\* first of "." and ":" in s selects the parser
ParseIP(s) ==
    IF IndexByte(s, ".") # 0 /\ (IndexByte(s, ":") = 0
                                  \/ IndexByte(s, ".") < IndexByte(s, ":"))
    THEN IPFromV4(ParseIPv4(s))
    ELSE IF IndexByte(s, ":") # 0 THEN ParseIPv6(s)
    ELSE [ok |-> FALSE, groups |-> <<>>]

\* ip.To4() != nil: the 16-byte form carries the IPv4-in-IPv6 prefix
To4NotNil(ip) ==
    /\ \A i \in 1..5 : ip.groups[i] = 0
    /\ ip.groups[6] = 65535

\* bit length of the address before the "/", 0 when it does not parse
AddrBitLen(addr) ==
    IF ParseIPv4(addr).ok THEN 32
    ELSE IF IndexByte(addr, ":") # 0 /\ ParseIPv6(addr).ok THEN 128
    ELSE 0

\* the prefix length: decimal digits, at most the bit length
MaskOk(mask, bitlen) ==
    /\ bitlen # 0
    /\ mask # <<>>
    /\ AllDigits(mask)
    /\ Len(mask) <= 8
    /\ DecValue(mask) <= bitlen

\* net.ParseCIDR(s) returns no error
ParseCIDROk(s) ==
    /\ IndexByte(s, "/") # 0
    /\ MaskOk(Suffix(s, IndexByte(s, "/") + 1),
              AddrBitLen(SubSeq(s, 1, IndexByte(s, "/") - 1)))

(***************************************************************************)
(* Client.validateAndNormalizeSources                                      *)
(***************************************************************************)
Slash32 == <<"/", "3", "2">>

Slash128 == <<"/", "1", "2", "8">>

\* one pass of the loop body: the entry appended for source, or invalid
NormalizeOne(source, ip) ==
    IF ip.ok
    THEN IF To4NotNil(ip)
         THEN [err |-> FALSE, out |-> source \o Slash32]
         ELSE [err |-> FALSE, out |-> source \o Slash128]
    ELSE IF ParseCIDROk(source)
    THEN [err |-> FALSE, out |-> source]
    ELSE [err |-> TRUE, out |-> <<>>]

RECURSIVE NormalizeLoop(_, _)
\* NormalizeStep with an invalid entry left out and the rest of the list kept
NormalizeStep_SkipInvalid(sources, validSources, one) ==
    IF one.err THEN NormalizeLoop(Tail(sources), validSources)
    ELSE NormalizeLoop(Tail(sources), Append(validSources, one.out))

\* the rest of the loop after one entry was looked at
NormalizeStep(sources, validSources, one) ==
    IF one.err THEN [err |-> TRUE, out |-> <<>>]
    ELSE NormalizeLoop(Tail(sources), Append(validSources, one.out))

\* the loop over sources, validSources being the list appended to so far
NormalizeLoop(sources, validSources) ==
    IF sources = <<>> THEN [err |-> FALSE, out |-> validSources]
    ELSE NormalizeStep(sources, validSources,
                       NormalizeOne(Head(sources), ParseIP(Head(sources))))

validateAndNormalizeSources(sources) == NormalizeLoop(sources, <<>>)

(***************************************************************************)
(* Sample strings: addresses, CIDR blocks and port ranges.                 *)
(***************************************************************************)
\* "1.1.1.1"
V4 == <<"1", ".", "1", ".", "1", ".", "1">>

\* "::1"
V6 == <<":", ":", "1">>

\* "10.0.0.0/8"
CIDR8 == <<"1", "0", ".", "0", ".", "0", ".", "0", "/", "8">>

\* "bad"
BAD == <<"b", "a", "d">>

\* "::ffff:1.2.3.4", an IPv6 literal of an IPv4-mapped address
MAPPED == <<":", ":", "f", "f", "f", "f", ":", "1", ".", "2", ".", "3", ".", "4">>

\* "1.1.1.0/33", a prefix length too long for its family
BADCIDR == <<"1", ".", "1", ".", "1", ".", "0", "/", "3", "3">>

\* "1.1.1.1/32"
V4Host == <<"1", ".", "1", ".", "1", ".", "1", "/", "3", "2">>

\* "1.2.3.4/32"
OtherHost == <<"1", ".", "2", ".", "3", ".", "4", "/", "3", "2">>

\* "5.5.5.5/32"
ThirdHost == <<"5", ".", "5", ".", "5", ".", "5", "/", "3", "2">>

\* "0.0.0.0/0"
AnyV4 == <<"0", ".", "0", ".", "0", ".", "0", "/", "0">>

\* "8000-9000"
PortSpan == <<"8", "0", "0", "0", "-", "9", "0", "0", "0">>

(***************************************************************************)
(* godo.Sources, godo.InboundRule, godo.Firewall, godo.FirewallRequest.    *)
(***************************************************************************)
\* a nil *godo.Sources
NilSources ==
    [nil |-> TRUE, Addresses |-> <<>>, Tags |-> <<>>, DropletIDs |-> <<>>,
     LoadBalancerUIDs |-> <<>>, KubernetesIDs |-> <<>>]

\* &godo.Sources{Addresses: addresses}
AddressSources(addresses) ==
    [nil |-> FALSE, Addresses |-> addresses, Tags |-> <<>>, DropletIDs |-> <<>>,
     LoadBalancerUIDs |-> <<>>, KubernetesIDs |-> <<>>]

InboundRule(protocol, portRange, sources) ==
    [Protocol |-> protocol, PortRange |-> portRange, Sources |-> sources]

\* digitalocean.FirewallRule
FirewallRule(port, protocol, sources) ==
    [Port |-> port, Protocol |-> protocol, Sources |-> sources]

\* the spec's scenario: tcp/22 and tcp/80
FwWeb ==
    [Name |-> "web",
     InboundRules |-> <<InboundRule("tcp", Sprintf_d(22), AddressSources(<<OtherHost>>)),
                        InboundRule("tcp", Sprintf_d(80), AddressSources(<<AnyV4>>))>>,
     OutboundRules |-> <<"out-tcp-all", "out-udp-53">>,
     Tags |-> <<"prod">>,
     DropletIDs |-> <<101, 102>>]

\* two tcp/22 rules, a udp rule on port 80, a port span, tag sources, a nil Sources
FwEdge ==
    [Name |-> "edge",
     InboundRules |-> <<InboundRule("udp", Sprintf_d(80), AddressSources(<<CIDR8>>)),
                        InboundRule("tcp", Sprintf_d(22),
                            [nil |-> FALSE, Addresses |-> <<ThirdHost, V4Host>>,
                             Tags |-> <<"bastion">>, DropletIDs |-> <<7>>,
                             LoadBalancerUIDs |-> <<"lb-1">>,
                             KubernetesIDs |-> <<"k8s-1">>]),
                        InboundRule("tcp", PortSpan, NilSources),
                        InboundRule("tcp", Sprintf_d(22), AddressSources(<<OtherHost>>))>>,
     OutboundRules |-> <<"out-icmp">>,
     Tags |-> <<>>,
     DropletIDs |-> <<7>>]

\* the firewalls the remote store may hold when the program starts
Snapshots == {FwWeb, FwEdge}

\* the rule an operator adds in the console while the program runs
ConsoleRule == InboundRule("tcp", <<"3", "3", "0", "6">>, AddressSources(<<ThirdHost>>))

(***************************************************************************)
(* Inputs of the client calls.                                             *)
(***************************************************************************)
\* the desired rules of the configuration, each with its own source list
DesiredRules ==
    {FirewallRule(80, "tcp", <<V6, V4>>), FirewallRule(443, "udp", <<CIDR8>>)}

\* sequences over S of length at most n
SeqUpTo(S, n) == UNION {[1..k -> S] : k \in 0..n}

\* the collected source lists handed to UpdateFirewallRules
CollectedSources == {<<>>, <<V6, V4>>, <<V4, BAD>>}

\* the addresses handed to AddSSHRule
SSHSources == {V4, V6, BAD}

SSHPorts == {22, 80}

\* the strings handed to the normalizer on its own
NormStrings == {V4, V6, CIDR8, BAD, MAPPED, BADCIDR}

(***************************************************************************)
(* Client.UpdateFirewallRules: the new inbound rule list.                  *)
(***************************************************************************)
\* ManagedPorts with only the first desired rule entered in the map
ManagedPorts_FirstOnly(rules) ==
    IF rules = <<>> THEN {} ELSE {Sprintf_d(rules[1].Port)}

\* managedPorts: the keys fmt.Sprintf("%d", rule.Port) set to true
ManagedPorts(rules) == {Sprintf_d(rules[i].Port) : i \in 1..Len(rules)}

RECURSIVE KeepLoop_Prepend(_, _, _)
\* KeepLoop with each kept rule put in front of the list
KeepLoop_Prepend(existing, managedPorts, newInboundRules) ==
    IF existing = <<>> THEN newInboundRules
    ELSE IF Head(existing).PortRange \notin managedPorts
    THEN KeepLoop_Prepend(Tail(existing), managedPorts,
                          <<Head(existing)>> \o newInboundRules)
    ELSE KeepLoop_Prepend(Tail(existing), managedPorts, newInboundRules)

RECURSIVE KeepLoop(_, _, _)
\* the loop over firewall.InboundRules that keeps the rules of ports not managed
KeepLoop(existing, managedPorts, newInboundRules) ==
    IF existing = <<>> THEN newInboundRules
    ELSE IF Head(existing).PortRange \notin managedPorts
    THEN KeepLoop(Tail(existing), managedPorts, Append(newInboundRules, Head(existing)))
    ELSE KeepLoop(Tail(existing), managedPorts, newInboundRules)

\* the sources written into the rule emitted for one desired rule
EmittedSources(rule, sourceIPs) == validateAndNormalizeSources(sourceIPs)

\* EmittedRule with the protocol fixed to tcp
EmittedRule_Tcp(rule, validSources) ==
    InboundRule("tcp", Sprintf_d(rule.Port), AddressSources(validSources))

\* the godo.InboundRule emitted for one desired rule
EmittedRule(rule, validSources) ==
    InboundRule(rule.Protocol, Sprintf_d(rule.Port), AddressSources(validSources))

RECURSIVE EmitLoop(_, _, _)
\* EmitStep with a desired rule left out when its sources are invalid
EmitStep_SkipRule(rules, sourceIPs, newInboundRules, v) ==
    IF v.err THEN EmitLoop(Tail(rules), sourceIPs, newInboundRules)
    ELSE EmitLoop(Tail(rules), sourceIPs,
                  Append(newInboundRules, EmittedRule(Head(rules), v.out)))

\* the rest of the loop after the sources of one desired rule were validated
EmitStep(rules, sourceIPs, newInboundRules, v) ==
    IF v.err THEN [err |-> TRUE, rules |-> <<>>]
    ELSE EmitLoop(Tail(rules), sourceIPs,
                  Append(newInboundRules, EmittedRule(Head(rules), v.out)))

\* the loop over rules: validate the sources, append one inbound rule
EmitLoop(rules, sourceIPs, newInboundRules) ==
    IF rules = <<>> THEN [err |-> FALSE, rules |-> newInboundRules]
    ELSE EmitStep(rules, sourceIPs, newInboundRules,
                  EmittedSources(Head(rules), sourceIPs))

\* newInboundRules as UpdateFirewallRules builds it, or the validation error
BulkInboundRules(firewall, rules, sourceIPs) ==
    EmitLoop(rules, sourceIPs,
             KeepLoop(firewall.InboundRules, ManagedPorts(rules), <<>>))

\* UpdateRequest without the droplet IDs of the snapshot
UpdateRequest_NoDroplets(firewall, newInboundRules) ==
    [Name |-> firewall.Name,
     InboundRules |-> newInboundRules,
     OutboundRules |-> firewall.OutboundRules,
     Tags |-> firewall.Tags,
     DropletIDs |-> <<>>]

\* the godo.FirewallRequest both operations submit
UpdateRequest(firewall, newInboundRules) ==
    [Name |-> firewall.Name,
     InboundRules |-> newInboundRules,
     OutboundRules |-> firewall.OutboundRules,
     Tags |-> firewall.Tags,
     DropletIDs |-> firewall.DropletIDs]

(***************************************************************************)
(* Client.AddSSHRule: the new inbound rule list.                           *)
(***************************************************************************)
\* existingSSHRuleIndex: the first tcp rule of the port (1-based), 0 when none
FindSSHRule(inboundRules, port) ==
    IF \E i \in 1..Len(inboundRules) :
           inboundRules[i].Protocol = "tcp" /\ inboundRules[i].PortRange = Sprintf_d(port)
    THEN CHOOSE i \in 1..Len(inboundRules) :
           /\ inboundRules[i].Protocol = "tcp"
           /\ inboundRules[i].PortRange = Sprintf_d(port)
           /\ \A j \in 1..(i - 1) :
                  ~(inboundRules[j].Protocol = "tcp"
                    /\ inboundRules[j].PortRange = Sprintf_d(port))
    ELSE 0

\* IPAlreadyExists looking at the first address of the rule only
IPAlreadyExists_FirstOnly(existingSSHRule, validSource) ==
    /\ ~existingSSHRule.Sources.nil
    /\ existingSSHRule.Sources.Addresses # <<>>
    /\ existingSSHRule.Sources.Addresses[1] = validSource

\* ipAlreadyExists: the normalized address is among the rule's addresses
IPAlreadyExists(existingSSHRule, validSource) ==
    /\ ~existingSSHRule.Sources.nil
    /\ \E i \in 1..Len(existingSSHRule.Sources.Addresses) :
           existingSSHRule.Sources.Addresses[i] = validSource

\* RulesExcept with the rule at existingSSHRuleIndex copied as well
RulesExcept_KeepAll(inboundRules, existingSSHRuleIndex) == inboundRules

\* all rules except the one at existingSSHRuleIndex
RulesExcept(inboundRules, existingSSHRuleIndex) ==
    SubSeq(inboundRules, 1, existingSSHRuleIndex - 1)
        \o SubSeq(inboundRules, existingSSHRuleIndex + 1, Len(inboundRules))

\* UpdatedAddresses with the new address put before the prior ones
UpdatedAddresses_Prepend(existingSSHRule, validSources, replaceExisting) ==
    IF replaceExisting THEN validSources
    ELSE (IF IPAlreadyExists(existingSSHRule, validSources[1]) THEN <<>>
          ELSE validSources)
         \o (IF existingSSHRule.Sources.nil THEN <<>>
             ELSE existingSSHRule.Sources.Addresses)

\* updatedAddresses of the rewritten rule
UpdatedAddresses(existingSSHRule, validSources, replaceExisting) ==
    IF replaceExisting THEN validSources
    ELSE (IF existingSSHRule.Sources.nil THEN <<>>
          ELSE existingSSHRule.Sources.Addresses)
         \o (IF IPAlreadyExists(existingSSHRule, validSources[1]) THEN <<>>
             ELSE validSources)

\* the tcp rule AddSSHRule appends for the port
SSHRule(port, addresses) ==
    InboundRule("tcp", Sprintf_d(port), AddressSources(addresses))

\* AddSSHRule once the rule of the port was looked for: a new rule, nothing
\* to do, or the rule rewritten at the end of the list
SSHAfterFind(inboundRules, validSources, idx, port, replaceExisting) ==
    IF idx = 0
    THEN [err |-> FALSE, noop |-> FALSE,
          rules |-> Append(inboundRules, SSHRule(port, validSources))]
    ELSE IF IPAlreadyExists(inboundRules[idx], validSources[1]) /\ ~replaceExisting
    THEN [err |-> FALSE, noop |-> TRUE, rules |-> <<>>]
    ELSE [err |-> FALSE, noop |-> FALSE,
          rules |-> Append(RulesExcept(inboundRules, idx),
                           SSHRule(port, UpdatedAddresses(inboundRules[idx],
                                                          validSources,
                                                          replaceExisting)))]

\* AddSSHRule once the source was validated
SSHAfterValidate(firewall, v, port, replaceExisting) ==
    IF v.err THEN [err |-> TRUE, noop |-> FALSE, rules |-> <<>>]
    ELSE SSHAfterFind(firewall.InboundRules, v.out,
                      FindSSHRule(firewall.InboundRules, port), port, replaceExisting)

\* the outcome of AddSSHRule after the snapshot was fetched: a validation
\* error, nothing to do, or the new inbound rule list
SSHInboundRules(firewall, sourceIP, port, replaceExisting) ==
    SSHAfterValidate(firewall, validateAndNormalizeSources(<<sourceIP>>),
                     port, replaceExisting)

(***************************************************************************)
(* The remote firewall and the calls on it.                                *)
(***************************************************************************)
NoFirewall ==
    [Name |-> "", InboundRules |-> <<>>, OutboundRules |-> <<>>,
     Tags |-> <<>>, DropletIDs |-> <<>>]

\* the call record before any call was made; stale is not a variable of the
\* code: it records that, when Update was called, the remote firewall was no
\* longer the snapshot the call had fetched
NoCall ==
    [op |-> "none", pc |-> "idle", rules |-> <<>>, sourceIPs |-> <<>>,
     sourceIP |-> <<>>, port |-> 0, replaceExisting |-> FALSE,
     fetched |-> FALSE, firewall |-> NoFirewall,
     updated |-> FALSE, req |-> NoFirewall, err |-> "none", stale |-> FALSE]

\* what is remembered of a call that replaced the firewall
Summary(c) ==
    [op |-> c.op, rules |-> c.rules, sourceIPs |-> c.sourceIPs,
     sourceIP |-> c.sourceIP, port |-> c.port,
     replaceExisting |-> c.replaceExisting,
     updated |-> c.updated, err |-> c.err,
     InboundRules |-> c.req.InboundRules]

\* the error value a client call hands back to its caller: "none" is the nil
\* of the `return nil` statements
Returned(c) == c.err

\* Firewalls.Update replaces the firewall by the request
ApplyUpdate(req) ==
    [Name |-> req.Name, InboundRules |-> req.InboundRules,
     OutboundRules |-> req.OutboundRules, Tags |-> req.Tags,
     DropletIDs |-> req.DropletIDs]

\* the previous call, when it replaced the firewall; no call otherwise
Previous(c) == IF c.updated /\ c.err = "none" THEN Summary(c) ELSE Summary(NoCall)

NormIdle == [pc |-> "idle", sources |-> <<>>, err |-> FALSE, out |-> <<>>]

\* a source provider that was not asked
NotCalled == [called |-> FALSE, err |-> FALSE, ips |-> <<>>]

\* a run of Service.UpdateFirewallRules that has not begun
NoCycle ==
    [pc |-> "idle", cf |-> NotCalled, nd |-> NotCalled, allIPs |-> <<>>,
     call |-> NoCall, err |-> "none"]

\* no retry wrapper has been called; results are the returns of the
\* wrapped function so far, an observation of the calls made
NoRetry ==
    [fn |-> "none", maxRetries |-> 0, attempt |-> 0, pc |-> "idle",
     cancelled |-> FALSE, results |-> <<>>, ips |-> <<>>, err |-> "none"]

\* removeDuplicates has not been called; first is the list of the first call
NoUniq == [pc |-> "idle", first |-> <<>>, ips |-> <<>>, unique |-> <<>>]

\* no command line process: the client is called directly
NoProc ==
    [command |-> "none", dryRun |-> FALSE, complete |-> TRUE, rules |-> <<>>, port |-> 0,
     timedOut |-> FALSE,
     removeExisting |-> FALSE, currentIP |-> <<>>, pc |-> "init",
     entries |-> 0, fired |-> 0, err |-> "none"]

NoCycles == [i \in 1..MaxCycles |-> NoCycle]

Init ==
    /\ fw \in Snapshots
    /\ call = NoCall
    /\ prev = Summary(NoCall)
    /\ ncalls = 0
    /\ norm = NormIdle
    /\ proc = NoProc
    /\ cycles = NoCycles
    /\ retry = NoRetry
    /\ uniq = NoUniq

\* a client call may begin: no call is in flight
CanBegin == call.pc \in {"idle", "done"} /\ ncalls < MaxCalls

\* AfterGetFirewall with the error of GetFirewall not looked at
AfterGetFirewall_IgnoreError(c, firewall) ==
    {[c EXCEPT !.pc = "fetched", !.fetched = TRUE, !.firewall = firewall],
     [c EXCEPT !.pc = "fetched"]}

\* GetFirewall, the first step of both operations: the snapshot, or an error
AfterGetFirewall(c, firewall) ==
    {[c EXCEPT !.pc = "fetched", !.fetched = TRUE, !.firewall = firewall],
     [c EXCEPT !.pc = "done", !.err = "get"]}

\* Client.UpdateFirewallRules up to the snapshot
UpdateFirewallRules_Get ==
    /\ CanBegin
    /\ \E rules \in SeqUpTo(DesiredRules, MaxRules), sourceIPs \in CollectedSources :
           call' \in AfterGetFirewall([NoCall EXCEPT !.op = "bulk", !.rules = rules,
                                                     !.sourceIPs = sourceIPs], fw)
    /\ prev' = Previous(call)
    /\ ncalls' = ncalls + 1
    /\ UNCHANGED <<fw, norm>>
    /\ UNCHANGED drivers
    /\ UNCHANGED helpers

\* Client.AddSSHRule up to the snapshot
AddSSHRule_Get ==
    /\ CanBegin
    /\ \E sourceIP \in SSHSources, port \in SSHPorts, replaceExisting \in BOOLEAN :
           call' \in AfterGetFirewall([NoCall EXCEPT !.op = "ssh",
                                                     !.sourceIP = sourceIP,
                                                     !.port = port,
                                                     !.replaceExisting = replaceExisting],
                                      fw)
    /\ prev' = Previous(call)
    /\ ncalls' = ncalls + 1
    /\ UNCHANGED <<fw, norm>>
    /\ UNCHANGED drivers
    /\ UNCHANGED helpers

\* Firewalls.Update with the request: the firewall is replaced, or the call
\* fails and the firewall stays
AfterUpdate(c, firewall, req) ==
    {[call |-> [c EXCEPT !.pc = "done", !.updated = TRUE, !.req = req,
                         !.stale = (firewall # c.firewall)],
      fw |-> ApplyUpdate(req)],
     [call |-> [c EXCEPT !.pc = "done", !.updated = TRUE, !.req = req,
                         !.stale = (firewall # c.firewall), !.err = "update"],
      fw |-> firewall]}

\* AfterBuild with the request built from the firewall as it is now
AfterBuild_Reread(c, firewall, r) ==
    IF r.err
    THEN {[call |-> [c EXCEPT !.pc = "done", !.err = "validate"], fw |-> firewall]}
    ELSE IF r.noop
    THEN {[call |-> [c EXCEPT !.pc = "done"], fw |-> firewall]}
    ELSE AfterUpdate(c, firewall, UpdateRequest(firewall, r.rules))

\* the return of a call from its outcome r: a validation error, nothing to
\* do, or the update request built from the snapshot
AfterBuild(c, firewall, r) ==
    IF r.err
    THEN {[call |-> [c EXCEPT !.pc = "done", !.err = "validate"], fw |-> firewall]}
    ELSE IF r.noop
    THEN {[call |-> [c EXCEPT !.pc = "done"], fw |-> firewall]}
    ELSE AfterUpdate(c, firewall, UpdateRequest(c.firewall, r.rules))

\* the outcome of UpdateFirewallRules once the snapshot was fetched
BulkOutcome(c) ==
    [noop |-> FALSE] @@ BulkInboundRules(c.firewall, c.rules, c.sourceIPs)

\* Client.UpdateFirewallRules from the snapshot to its return
UpdateFirewallRules_Update ==
    /\ call.pc = "fetched"
    /\ call.op = "bulk"
    /\ \E n \in AfterBuild(call, fw, BulkOutcome(call)) :
           call' = n.call /\ fw' = n.fw
    /\ UNCHANGED <<prev, ncalls, norm>>
    /\ UNCHANGED drivers
    /\ UNCHANGED helpers

\* Client.AddSSHRule from the snapshot to its return
AddSSHRule_Update ==
    /\ call.pc = "fetched"
    /\ call.op = "ssh"
    /\ \E n \in AfterBuild(call, fw,
                           SSHInboundRules(call.firewall, call.sourceIP, call.port,
                                           call.replaceExisting)) :
           call' = n.call /\ fw' = n.fw
    /\ UNCHANGED <<prev, ncalls, norm>>
    /\ UNCHANGED drivers
    /\ UNCHANGED helpers

\* an operator edits the firewall in the console: one more inbound rule, one more tag
ExternalEdit ==
    /\ \A i \in 1..Len(fw.InboundRules) : fw.InboundRules[i] # ConsoleRule
    /\ fw' = [fw EXCEPT !.InboundRules = Append(@, ConsoleRule),
                        !.Tags = Append(@, "console")]
    /\ UNCHANGED <<call, prev, ncalls, norm>>
    /\ UNCHANGED drivers
    /\ UNCHANGED helpers

Next ==
    \/ UpdateFirewallRules_Get
    \/ UpdateFirewallRules_Update
    \/ AddSSHRule_Get
    \/ AddSSHRule_Update
    \/ ExternalEdit

Spec == Init /\ [][Next]_vars

(***************************************************************************)
(* The normalizer on its own: every source list up to MaxSources.          *)
(***************************************************************************)
InitNorm ==
    /\ fw = NoFirewall
    /\ call = NoCall
    /\ prev = Summary(NoCall)
    /\ ncalls = 0
    /\ norm = NormIdle
    /\ proc = NoProc
    /\ cycles = NoCycles
    /\ retry = NoRetry
    /\ uniq = NoUniq

\* a caller hands a source list to validateAndNormalizeSources
NormCall ==
    /\ norm.pc \in {"idle", "returned"}
    /\ \E sources \in SeqUpTo(NormStrings, MaxSources) :
           norm' = [pc |-> "called", sources |-> sources, err |-> FALSE, out |-> <<>>]
    /\ UNCHANGED <<fw, call, prev, ncalls>>
    /\ UNCHANGED drivers
    /\ UNCHANGED helpers

\* validateAndNormalizeSources returns
NormReturn ==
    /\ norm.pc = "called"
    /\ \E v \in {validateAndNormalizeSources(norm.sources)} :
           norm' = [norm EXCEPT !.pc = "returned", !.err = v.err, !.out = v.out]
    /\ UNCHANGED <<fw, call, prev, ncalls>>
    /\ UNCHANGED drivers
    /\ UNCHANGED helpers

NextNorm == NormCall \/ NormReturn

SpecNorm == InitNorm /\ [][NextNorm]_vars

(***************************************************************************)
(* The command line process: the daemon and oneshot commands run           *)
(* Service.UpdateFirewallRules, the allow-current-ip command runs          *)
(* Client.AddSSHRule.                                                      *)
(***************************************************************************)
\* config.DigitalOcean.InboundRules: the ports and protocols of the file
ConfigRules ==
    {<<[Port |-> 80, Protocol |-> "tcp"]>>,
     <<[Port |-> 80, Protocol |-> "tcp"], [Port |-> 443, Protocol |-> "udp"]>>}

\* inbound rules of a configuration file with a port or a protocol that
\* validate refuses
InvalidConfigRules ==
    {<<[Port |-> 0, Protocol |-> "tcp"]>>,
     <<[Port |-> 80, Protocol |-> "tcp"], [Port |-> 65536, Protocol |-> "udp"]>>,
     <<[Port |-> 80, Protocol |-> "http"]>>,
     <<[Port |-> 443, Protocol |-> "icmp"], [Port |-> 80, Protocol |-> "TCP"]>>}

RECURSIVE validateRules_FirstOnly(_)
\* validateRules looking at the first inbound rule only
validateRules_FirstOnly(rules) ==
    IF rules = <<>> THEN "none"
    ELSE IF Head(rules).Port <= 0 \/ Head(rules).Port > 65535 THEN "port"
    ELSE IF Head(rules).Protocol \notin {"tcp", "udp", "icmp"} THEN "protocol"
    ELSE "none"

RECURSIVE validateRules(_)
\* the loop of validate over config.DigitalOcean.InboundRules: the first error
validateRules(rules) ==
    IF rules = <<>> THEN "none"
    ELSE IF Head(rules).Port <= 0 \/ Head(rules).Port > 65535 THEN "port"
    ELSE IF Head(rules).Protocol \notin {"tcp", "udp", "icmp"} THEN "protocol"
    ELSE validateRules(Tail(rules))

\* validate: the required keys and the log level, then the inbound rules
validate(complete, rules) ==
    IF ~complete THEN "required" ELSE validateRules(rules)

\* the --port values of allow-current-ip
AllowPorts == {0, 22}

\* a provider that failed after its retries
ProviderFailed == [called |-> TRUE, err |-> TRUE, ips |-> <<>>]

\* a provider that returned addresses
ProviderOk(ips) == [called |-> TRUE, err |-> FALSE, ips |-> ips]

\* what cloudflareClient.FetchIPsWithRetry may return: the CIDR blocks of the
\* response are not looked at
CloudflareResults == {ProviderFailed, ProviderOk(<<V4, CIDR8>>), ProviderOk(<<CIDR8, BADCIDR>>)}

\* what resolveNetdataIPs may return: no domain configured, an address, a failure
NetdataResults == {ProviderFailed, ProviderOk(<<>>), ProviderOk(<<V4>>)}

\* what publicIPClient.GetPublicIPWithRetry may return: "" and an error, or an
\* address net.ParseIP accepted
PublicIPResults == {ProviderFailed, ProviderOk(V4), ProviderOk(V6)}

\* the processes the root command can start
Processes ==
    {[NoProc EXCEPT !.command = command, !.dryRun = dryRun, !.rules = rules,
                    !.pc = "start"] :
         command \in {"daemon", "oneshot"}, dryRun \in BOOLEAN,
         rules \in ConfigRules \cup InvalidConfigRules}
    \cup
    {[NoProc EXCEPT !.command = command, !.dryRun = (command = "validate"),
                    !.rules = rules, !.pc = "start"] :
         command \in {"validate", "status"},
         rules \in ConfigRules \cup InvalidConfigRules}
    \cup
    {[NoProc EXCEPT !.command = command, !.complete = FALSE,
                    !.rules = rules, !.pc = "start"] :
         command \in {"daemon", "oneshot", "allow-current-ip"},
         rules \in ConfigRules}
    \cup
    {[NoProc EXCEPT !.command = "allow-current-ip", !.dryRun = dryRun,
                    !.rules = rules, !.port = port,
                    !.removeExisting = removeExisting, !.pc = "start"] :
         dryRun \in BOOLEAN, port \in AllowPorts, removeExisting \in BOOLEAN,
         rules \in {<<>>, <<[Port |-> 80, Protocol |-> "icmp"]>>,
                    <<[Port |-> 80, Protocol |-> "tcp"], [Port |-> -1, Protocol |-> "tcp"]>>}}

InitMain ==
    /\ fw \in Snapshots
    /\ call = NoCall
    /\ prev = Summary(NoCall)
    /\ ncalls = 0
    /\ norm = NormIdle
    /\ proc \in Processes
    /\ cycles = NoCycles
    /\ retry = NoRetry
    /\ uniq = NoUniq

\* the process after config.Load returned err: every command returns the
\* error before it does anything else
AfterLoad(p, err) ==
    IF err # "none" THEN [p EXCEPT !.pc = "exited", !.err = "load"]
    ELSE IF p.command = "status" THEN [p EXCEPT !.pc = "exited"]
    ELSE [p EXCEPT !.pc = "init"]

\* config.Load at the start of runDaemon, runOneshot, runAllowCurrentIP,
\* runValidate and runStatus; runStatus prints and ends
Config_Load ==
    /\ proc.pc = "start"
    /\ proc' = AfterLoad(proc, validate(proc.complete, proc.rules))
    /\ UNCHANGED <<fw, call, prev, ncalls, norm, cycles>>
    /\ UNCHANGED helpers

\* firewallRules: one digitalocean.FirewallRule per configured rule, each
\* with all collected addresses
FirewallRules(rules, allIPs) ==
    [i \in 1..Len(rules) |-> FirewallRule(rules[i].Port, rules[i].Protocol, allIPs)]

\* Service.ValidateConfiguration at the start of Daemon.Start and of
\* Daemon.RunOnce: the firewall, Cloudflare and the Netdata domains are
\* reachable, or not
ValidateConfiguration ==
    /\ proc.command \in {"daemon", "oneshot", "validate"}
    /\ proc.pc = "init"
    /\ \/ proc' = [proc EXCEPT !.pc = "validated"]
       \/ proc' = [proc EXCEPT !.pc = "exited", !.err = "config"]
    /\ UNCHANGED <<fw, call, prev, ncalls, norm, cycles>>
    /\ UNCHANGED helpers

\* Daemon.Start: AddJob of the firewall-update job and scheduler.Start
Daemon_Start ==
    /\ proc.command = "daemon"
    /\ proc.pc = "validated"
    /\ proc' = [proc EXCEPT !.pc = "running", !.entries = @ + 1]
    /\ UNCHANGED <<fw, call, prev, ncalls, norm, cycles>>
    /\ UNCHANGED helpers

\* Daemon.RunOnce: one run of the job, called directly; runValidate calls it
\* on a dry-run daemon
Daemon_RunOnce ==
    /\ proc.command \in {"oneshot", "validate"}
    /\ proc.pc = "validated"
    /\ proc' = [proc EXCEPT !.pc = "running", !.fired = 1]
    /\ cycles' = [cycles EXCEPT ![1].pc = "started"]
    /\ UNCHANGED <<fw, call, prev, ncalls, norm>>
    /\ UNCHANGED helpers

\* the cron schedule fires: cron.New without a job wrapper starts each run of
\* an entry in a goroutine of its own, whatever runs are still in progress
Cron_Fire ==
    /\ proc.command = "daemon"
    /\ proc.pc = "running"
    /\ proc.entries > 0
    /\ proc.fired < MaxCycles
    /\ proc' = [proc EXCEPT !.fired = @ + 1]
    /\ cycles' = [cycles EXCEPT ![proc.fired + 1].pc = "started"]
    /\ UNCHANGED <<fw, call, prev, ncalls, norm>>
    /\ UNCHANGED helpers

\* the process is alive: its goroutines run
Alive == proc.pc \in {"running", "stopping", "stopped"}


\* AfterNetdata without the dry-run return
AfterNetdata_IgnoreDryRun(c, cf, nd, dryRun) ==
    IF nd.err
    THEN [c EXCEPT !.pc = "returned", !.cf = cf, !.nd = nd, !.err = "netdata"]
    ELSE [c EXCEPT !.pc = "collected", !.cf = cf, !.nd = nd,
                   !.allIPs = cf.ips \o nd.ips]

\* Service.UpdateFirewallRules after both providers were asked: the Netdata
\* error, or allIPs and, in a dry run, the return after the log lines
AfterNetdata(c, cf, nd, dryRun) ==
    IF nd.err
    THEN [c EXCEPT !.pc = "returned", !.cf = cf, !.nd = nd, !.err = "netdata"]
    ELSE IF dryRun
    THEN [c EXCEPT !.pc = "returned", !.cf = cf, !.nd = nd,
                   !.allIPs = cf.ips \o nd.ips]
    ELSE [c EXCEPT !.pc = "collected", !.cf = cf, !.nd = nd,
                   !.allIPs = cf.ips \o nd.ips]

\* Service.UpdateFirewallRules after fetchCloudflareIPs: its error, or
\* resolveNetdataIPs and what follows
AfterCloudflare(c, cf, dryRun) ==
    IF cf.err
    THEN {[c EXCEPT !.pc = "returned", !.cf = cf, !.err = "cloudflare"]}
    ELSE {AfterNetdata(c, cf, nd, dryRun) : nd \in NetdataResults}

\* Service.UpdateFirewallRules from its start to the call of the client
Service_Collect(i) ==
    /\ Alive
    /\ cycles[i].pc = "started"
    /\ \E cf \in CloudflareResults :
           \E c \in AfterCloudflare(cycles[i], cf, proc.dryRun) :
               cycles' = [cycles EXCEPT ![i] = c]
    /\ UNCHANGED <<fw, call, prev, ncalls, norm, proc>>
    /\ UNCHANGED helpers

\* the run of the service once its client call c is at a new place: inside
\* the client, or returned with the client's error wrapped
ServiceAfterCall(cycle, c) ==
    IF c.pc = "done"
    THEN [cycle EXCEPT !.pc = "returned", !.call = c,
                       !.err = IF c.err = "none" THEN "none" ELSE "update"]
    ELSE [cycle EXCEPT !.pc = "fetched", !.call = c]

\* digitalOceanClient.UpdateFirewallRules(firewallRules, allIPs) up to the snapshot
Service_Get(i) ==
    /\ Alive
    /\ cycles[i].pc = "collected"
    /\ \E c \in AfterGetFirewall(
                    [NoCall EXCEPT !.op = "bulk",
                                   !.rules = FirewallRules(proc.rules, cycles[i].allIPs),
                                   !.sourceIPs = cycles[i].allIPs], fw) :
           cycles' = [cycles EXCEPT ![i] = ServiceAfterCall(@, c)]
    /\ UNCHANGED <<fw, call, prev, ncalls, norm, proc>>
    /\ UNCHANGED helpers

\* digitalOceanClient.UpdateFirewallRules from the snapshot to its return
Service_Update(i) ==
    /\ Alive
    /\ cycles[i].pc = "fetched"
    /\ \E n \in AfterBuild(cycles[i].call, fw, BulkOutcome(cycles[i].call)) :
           /\ fw' = n.fw
           /\ cycles' = [cycles EXCEPT ![i] = ServiceAfterCall(@, n.call)]
    /\ UNCHANGED <<call, prev, ncalls, norm, proc>>
    /\ UNCHANGED helpers

\* JobReturned with the process ended by a failed run of the scheduled job
JobReturned_Fatal(p, err) ==
    IF p.command \in {"oneshot", "validate"} \/ err # "none"
    THEN [p EXCEPT !.pc = "exited", !.err = err]
    ELSE p

\* the process after a run of the job returned err: wrapJob only logs it,
\* RunOnce returns it to the oneshot command, which ends
JobReturned(p, err) ==
    IF p.command \in {"oneshot", "validate"}
    THEN [p EXCEPT !.pc = "exited", !.err = err]
    ELSE p

\* the job function returns: to wrapJob in the daemon, to RunOnce in oneshot
Job_Return(i) ==
    /\ Alive
    /\ cycles[i].pc = "returned"
    /\ cycles' = [cycles EXCEPT ![i].pc = "logged"]
    /\ proc' = JobReturned(proc, cycles[i].err)
    /\ UNCHANGED <<fw, call, prev, ncalls, norm>>
    /\ UNCHANGED helpers

\* SIGINT, SIGTERM or the cancelled context: Daemon.shutdown stops the cron
Daemon_Signal ==
    /\ proc.command = "daemon"
    /\ proc.pc = "running"
    /\ proc' = [proc EXCEPT !.pc = "stopping"]
    /\ UNCHANGED <<fw, call, prev, ncalls, norm, cycles>>
    /\ UNCHANGED helpers

\* the runs that the cron waits for: started and not yet back from wrapJob
RunningJobs(cs) ==
    {i \in 1..MaxCycles : cs[i].pc \in {"started", "collected", "fetched", "returned"}}

\* the select of Scheduler.Stop that returns at once
StopWaitOver_NoWait(running, timeout) == TRUE

\* the select of Scheduler.Stop can return: the context of cron.Stop is done,
\* no run being in progress, or the 30 seconds have passed
StopWaitOver(running, timeout) == running = {} \/ timeout

\* Scheduler.Stop returns, the running jobs having ended or the 30 seconds
\* having passed, and Daemon.Start returns
Daemon_Stopped ==
    /\ proc.command = "daemon"
    /\ proc.pc = "stopping"
    /\ \E timeout \in BOOLEAN :
           /\ StopWaitOver(RunningJobs(cycles), timeout)
           /\ proc' = [proc EXCEPT !.pc = "stopped", !.timedOut = timeout]
    /\ UNCHANGED <<fw, call, prev, ncalls, norm, cycles>>
    /\ UNCHANGED helpers

\* runDaemon returns after Daemon.Start and the process ends, whatever
\* goroutines are left
Process_Exit ==
    /\ proc.command = "daemon"
    /\ proc.pc = "stopped"
    /\ proc' = [proc EXCEPT !.pc = "exited"]
    /\ UNCHANGED <<fw, call, prev, ncalls, norm, cycles>>
    /\ UNCHANGED helpers


\* runAllowCurrentIP once the public address was asked for: the detection
\* error, the end of a dry run after its log lines, or the way to the client
AfterPublicIP(p, r) ==
    IF r.err THEN [p EXCEPT !.pc = "exited", !.err = "publicip"]
    ELSE IF p.dryRun THEN [p EXCEPT !.pc = "exited", !.currentIP = r.ips]
    ELSE [p EXCEPT !.pc = "detected", !.currentIP = r.ips]

\* runAllowCurrentIP from the port check to the dry-run return
Allow_Detect ==
    /\ proc.command = "allow-current-ip"
    /\ proc.pc = "init"
    /\ IF proc.port <= 0 \/ proc.port > 65535
       THEN proc' = [proc EXCEPT !.pc = "exited", !.err = "port"]
       ELSE \E r \in PublicIPResults : proc' = AfterPublicIP(proc, r)
    /\ UNCHANGED <<fw, call, prev, ncalls, norm, cycles>>
    /\ UNCHANGED helpers

\* doClient.AddSSHRule(currentIP, port, removeExisting) up to the snapshot
Allow_AddSSHRule ==
    /\ proc.command = "allow-current-ip"
    /\ proc.pc = "detected"
    /\ call' \in AfterGetFirewall([NoCall EXCEPT !.op = "ssh",
                                                 !.sourceIP = proc.currentIP,
                                                 !.port = proc.port,
                                                 !.replaceExisting = proc.removeExisting],
                                  fw)
    /\ proc' = [proc EXCEPT !.pc = "calling"]
    /\ UNCHANGED <<fw, prev, ncalls, norm, cycles>>
    /\ UNCHANGED helpers

\* AddSSHRule returned to runAllowCurrentIP, which returns its error wrapped or nil
Allow_Return ==
    /\ proc.command = "allow-current-ip"
    /\ proc.pc = "calling"
    /\ call.pc = "done"
    /\ proc' = [proc EXCEPT !.pc = "exited",
                            !.err = IF Returned(call) = "none" THEN "none" ELSE "ssh"]
    /\ UNCHANGED <<fw, call, prev, ncalls, norm, cycles>>
    /\ UNCHANGED helpers

NextMain ==
    \/ Config_Load
    \/ ValidateConfiguration
    \/ Daemon_Start
    \/ Daemon_RunOnce
    \/ Cron_Fire
    \/ \E i \in 1..MaxCycles : Service_Collect(i)
    \/ \E i \in 1..MaxCycles : Service_Get(i)
    \/ \E i \in 1..MaxCycles : Service_Update(i)
    \/ \E i \in 1..MaxCycles : Job_Return(i)
    \/ Daemon_Signal
    \/ Daemon_Stopped
    \/ Process_Exit
    \/ Allow_Detect
    \/ Allow_AddSSHRule
    \/ AddSSHRule_Update
    \/ Allow_Return

SpecMain == InitMain /\ [][NextMain]_vars

(***************************************************************************)
(* The retry wrappers FetchIPsWithRetry, ResolveDomainsWithRetry and       *)
(* GetPublicIPWithRetry: the same loop around three functions.             *)
(***************************************************************************)
RetryWrappers == {"FetchIPsWithRetry", "ResolveDomainsWithRetry", "GetPublicIPWithRetry"}

\* what one call of the wrapped function may return
AttemptResults == {ProviderFailed, ProviderOk(<<V4>>), ProviderOk(<<V6>>)}

InitRetry ==
    /\ fw = NoFirewall
    /\ call = NoCall
    /\ prev = Summary(NoCall)
    /\ ncalls = 0
    /\ norm = NormIdle
    /\ proc = NoProc
    /\ cycles = NoCycles
    /\ retry = NoRetry
    /\ uniq = NoUniq

\* a caller hands a context and maxRetries to a wrapper: attempt := 1
Retry_Call ==
    /\ retry.pc = "idle"
    /\ \E fn \in RetryWrappers, maxRetries \in 0..MaxRetries :
           retry' = [NoRetry EXCEPT !.fn = fn, !.maxRetries = maxRetries,
                                    !.attempt = 1, !.pc = "loop"]
    /\ UNCHANGED <<fw, call, prev, ncalls, norm, proc, cycles, uniq>>

\* AfterAttempt going on to the next attempt after a success
AfterAttempt_KeepGoing(r, res) ==
    IF r.attempt < r.maxRetries
    THEN [r EXCEPT !.results = Append(@, res), !.pc = "waiting"]
    ELSE IF ~res.err
    THEN [r EXCEPT !.results = Append(@, res), !.pc = "returned", !.ips = res.ips]
    ELSE [r EXCEPT !.results = Append(@, res), !.attempt = @ + 1]

\* the body of the loop once the wrapped function returned res: the return of
\* a success, the wait before the next attempt, or the end of the loop
AfterAttempt(r, res) ==
    IF ~res.err
    THEN [r EXCEPT !.results = Append(@, res), !.pc = "returned", !.ips = res.ips]
    ELSE IF r.attempt < r.maxRetries
    THEN [r EXCEPT !.results = Append(@, res), !.pc = "waiting"]
    ELSE [r EXCEPT !.results = Append(@, res), !.attempt = @ + 1]

\* the top of the loop: one call of the wrapped function while attempt <=
\* maxRetries, the error after all retries otherwise
Retry_Attempt ==
    /\ retry.pc = "loop"
    /\ IF retry.attempt <= retry.maxRetries
       THEN \E res \in AttemptResults : retry' = AfterAttempt(retry, res)
       ELSE retry' = [retry EXCEPT !.pc = "returned", !.err = "retries"]
    /\ UNCHANGED <<fw, call, prev, ncalls, norm, proc, cycles, uniq>>

\* the select between two attempts: the backoff has passed, or the context
\* is done and its error is returned
AfterWait(r) ==
    {[r EXCEPT !.attempt = @ + 1, !.pc = "loop"]}
        \cup (IF r.cancelled THEN {[r EXCEPT !.pc = "returned", !.err = "ctx"]} ELSE {})

Retry_Wait ==
    /\ retry.pc = "waiting"
    /\ retry' \in AfterWait(retry)
    /\ UNCHANGED <<fw, call, prev, ncalls, norm, proc, cycles, uniq>>

\* the caller cancels the context of the call
Ctx_Cancel ==
    /\ retry.pc \in {"loop", "waiting"}
    /\ ~retry.cancelled
    /\ retry' = [retry EXCEPT !.cancelled = TRUE]
    /\ UNCHANGED <<fw, call, prev, ncalls, norm, proc, cycles, uniq>>

NextRetry ==
    \/ Retry_Call
    \/ Retry_Attempt
    \/ Retry_Wait
    \/ Ctx_Cancel

SpecRetry == InitRetry /\ [][NextRetry]_vars

(***************************************************************************)
(* removeDuplicates of the netdata package.                                *)
(***************************************************************************)
\* the strings of the lists handed to removeDuplicates
IPStrings == {V4, V6, CIDR8}

RECURSIVE removeDuplicatesLoop_KeepAll(_, _, _)
\* removeDuplicatesLoop with the seen map not looked at
removeDuplicatesLoop_KeepAll(ips, seen, unique) ==
    IF ips = <<>> THEN unique
    ELSE removeDuplicatesLoop_KeepAll(Tail(ips), seen \cup {Head(ips)},
                                      Append(unique, Head(ips)))

RECURSIVE removeDuplicatesLoop(_, _, _)
\* the range loop: an address not seen before is marked and appended
removeDuplicatesLoop(ips, seen, unique) ==
    IF ips = <<>> THEN unique
    ELSE IF Head(ips) \notin seen
    THEN removeDuplicatesLoop(Tail(ips), seen \cup {Head(ips)}, Append(unique, Head(ips)))
    ELSE removeDuplicatesLoop(Tail(ips), seen, unique)

removeDuplicates(ips) == removeDuplicatesLoop(ips, {}, <<>>)

InitUniq ==
    /\ fw = NoFirewall
    /\ call = NoCall
    /\ prev = Summary(NoCall)
    /\ ncalls = 0
    /\ norm = NormIdle
    /\ proc = NoProc
    /\ cycles = NoCycles
    /\ retry = NoRetry
    /\ uniq = NoUniq

\* a caller hands a list to removeDuplicates
Uniq_Call ==
    /\ uniq.pc = "idle"
    /\ \E ips \in SeqUpTo(IPStrings, MaxIPs) :
           uniq' = [pc |-> "returned", first |-> ips, ips |-> ips,
                    unique |-> removeDuplicates(ips)]
    /\ UNCHANGED <<fw, call, prev, ncalls, norm, proc, cycles, retry>>

\* the caller hands the returned list to removeDuplicates again
Uniq_Again ==
    /\ uniq.pc = "returned"
    /\ uniq' = [pc |-> "again", first |-> uniq.first, ips |-> uniq.unique,
                unique |-> removeDuplicates(uniq.unique)]
    /\ UNCHANGED <<fw, call, prev, ncalls, norm, proc, cycles, retry>>

NextUniq ==
    \/ Uniq_Call
    \/ Uniq_Again

SpecUniq == InitUniq /\ [][NextUniq]_vars

(***************************************************************************)
(* Properties of bulk reconcile (Client.UpdateFirewallRules).              *)
(***************************************************************************)
\* the port number a port range names, -1 when it is not a single port
PortOf(r) ==
    IF r.PortRange # <<>> /\ AllDigits(r.PortRange) THEN DecValue(r.PortRange) ELSE -1

\* the rule is on a port some desired rule names
OnManagedPort(r, rules) == \E i \in 1..Len(rules) : rules[i].Port = PortOf(r)

RECURSIVE UnmanagedOf(_, _)
\* the rules of a list that are on no managed port, in the order of the list
UnmanagedOf(inboundRules, rules) ==
    IF inboundRules = <<>> THEN <<>>
    ELSE (IF OnManagedPort(Head(inboundRules), rules) THEN <<>>
          ELSE <<Head(inboundRules)>>)
         \o UnmanagedOf(Tail(inboundRules), rules)

\* UpdateFirewallRules called Firewalls.Update with call.req
BulkSubmitted == call.op = "bulk" /\ call.updated

\* C1: in the inbound list bulk reconcile submits, the rules on unmanaged
\* ports are the snapshot's rules on unmanaged ports: each once, unchanged in
\* every field, in the snapshot's order.
C1_UnmanagedPreserved ==
    BulkSubmitted =>
        UnmanagedOf(call.req.InboundRules, call.rules)
            = UnmanagedOf(call.firewall.InboundRules, call.rules)

\* a submitted bulk update whose snapshot held rules on managed ports among
\* at least two rules on unmanaged ports
C1_Witness ==
    /\ BulkSubmitted
    /\ Len(UnmanagedOf(call.firewall.InboundRules, call.rules)) >= 2
    /\ Len(UnmanagedOf(call.firewall.InboundRules, call.rules))
           < Len(call.firewall.InboundRules)

\* name, outbound rules, tags and droplet IDs of a firewall or a request
PassThrough(f) ==
    [Name |-> f.Name, OutboundRules |-> f.OutboundRules, Tags |-> f.Tags,
     DropletIDs |-> f.DropletIDs]

\* C2: every update request of UpdateFirewallRules and AddSSHRule carries
\* name, outbound rules, tags and droplet IDs of the snapshot the call
\* fetched, and a call returning on a firewall whose four fields are still
\* those of its snapshot leaves them as they were.
C2_PassThroughKept ==
    [][/\ call'.updated => PassThrough(call'.req) = PassThrough(call'.firewall)
       /\ (/\ call.pc = "fetched"
           /\ call'.pc = "done"
           /\ PassThrough(call.firewall) = PassThrough(fw))
              => PassThrough(fw') = PassThrough(fw)]_vars

\* a single-IP update that replaced a firewall with tags and droplets, after
\* a bulk update had replaced it
C2_Witness ==
    /\ call.op = "ssh"
    /\ call.updated
    /\ call.err = "none"
    /\ prev.op = "bulk"
    /\ call.firewall.Tags # <<>>
    /\ call.firewall.DropletIDs # <<>>
    /\ fw = ApplyUpdate(call.req)

\* C3: the inbound list bulk reconcile submits is the snapshot's rules on
\* unmanaged ports followed by one rule per desired rule, in desired order,
\* with that desired rule's protocol and port; so no rule of the snapshot on
\* a managed port is in it.
C3_KeptThenEmitted ==
    BulkSubmitted =>
        /\ Len(call.req.InboundRules)
               = Len(UnmanagedOf(call.firewall.InboundRules, call.rules))
                 + Len(call.rules)
        /\ SubSeq(call.req.InboundRules, 1,
                  Len(call.req.InboundRules) - Len(call.rules))
               = UnmanagedOf(call.firewall.InboundRules, call.rules)
        /\ \A i \in 1..Len(call.rules) :
               /\ call.req.InboundRules[Len(call.req.InboundRules)
                                        - Len(call.rules) + i].Protocol
                      = call.rules[i].Protocol
               /\ PortOf(call.req.InboundRules[Len(call.req.InboundRules)
                                               - Len(call.rules) + i])
                      = call.rules[i].Port

\* a submitted bulk update of two different desired rules on a snapshot that
\* held a rule on a managed port and a rule on an unmanaged port
C3_Witness ==
    /\ BulkSubmitted
    /\ Len(call.rules) = 2
    /\ call.rules[1] # call.rules[2]
    /\ UnmanagedOf(call.firewall.InboundRules, call.rules) # <<>>
    /\ Len(UnmanagedOf(call.firewall.InboundRules, call.rules))
           < Len(call.firewall.InboundRules)

\* C4: the addresses of the rule emitted for a desired rule are the
\* normalization of that desired rule's own Sources.
C4_OwnSources ==
    BulkSubmitted =>
        \A i \in 1..Len(call.rules) :
            /\ ~validateAndNormalizeSources(call.rules[i].Sources).err
            /\ call.req.InboundRules[Len(call.req.InboundRules)
                                     - Len(call.rules) + i].Sources.Addresses
                   = validateAndNormalizeSources(call.rules[i].Sources).out

\* C5: a bulk reconcile run with the desired rules and the collected sources
\* of the previous successful bulk run, on the firewall that run produced,
\* submits the inbound list that run submitted.
C5_Idempotent ==
    (/\ BulkSubmitted
     /\ prev.op = "bulk"
     /\ call.rules = prev.rules
     /\ call.sourceIPs = prev.sourceIPs
     /\ call.firewall.InboundRules = prev.InboundRules)
        => call.req.InboundRules = prev.InboundRules

\* a second bulk run of a non-empty desired list on the result of the first,
\* whose snapshot held a rule on an unmanaged port
C5_Witness ==
    /\ BulkSubmitted
    /\ prev.op = "bulk"
    /\ call.rules = prev.rules
    /\ call.sourceIPs = prev.sourceIPs
    /\ call.firewall.InboundRules = prev.InboundRules
    /\ call.rules # <<>>
    /\ call.sourceIPs # <<>>
    /\ UnmanagedOf(call.firewall.InboundRules, call.rules) # <<>>

(***************************************************************************)
(* Properties of the normalizer (Client.validateAndNormalizeSources).      *)
(***************************************************************************)
\* the text is a dotted-decimal IPv4 address
BareIPv4(x) == ParseIPv4(x).ok

\* the text is an IPv6 address literal
BareIPv6(x) == IndexByte(x, ":") # 0 /\ IndexByte(x, "/") = 0 /\ ParseIPv6(x).ok

\* the text is neither an address nor a CIDR block
InvalidSource(x) == ~BareIPv4(x) /\ ~BareIPv6(x) /\ ~ParseCIDROk(x)

\* what the normalizer is to return for one valid entry
Normalized(x) ==
    IF BareIPv4(x) THEN x \o <<"/", "3", "2">>
    ELSE IF BareIPv6(x) THEN x \o <<"/", "1", "2", "8">>
    ELSE x

\* C6: the normalizer fails when an entry is neither an address nor a CIDR
\* block, and otherwise returns, entry by entry in input order, a bare IPv4
\* address with "/32" appended, a bare IPv6 address with "/128" appended and
\* a CIDR block unchanged.
C6_NormalizerTable ==
    norm.pc = "returned" =>
        IF \E i \in 1..Len(norm.sources) : InvalidSource(norm.sources[i])
        THEN norm.err
        ELSE /\ ~norm.err
             /\ norm.out = [i \in 1..Len(norm.sources) |-> Normalized(norm.sources[i])]

\* C7: when an entry of the list is invalid the normalizer returns an error
\* and no output list, however many valid entries precede it.
C7_AtomicFailure ==
    (/\ norm.pc = "returned"
     /\ \E i \in 1..Len(norm.sources) : InvalidSource(norm.sources[i]))
        => norm.err /\ norm.out = <<>>

\* the normalizer returned on a list whose last entry is invalid after two
\* valid ones
C7_Witness ==
    /\ norm.pc = "returned"
    /\ Len(norm.sources) = 3
    /\ ~InvalidSource(norm.sources[1])
    /\ ~InvalidSource(norm.sources[2])
    /\ InvalidSource(norm.sources[3])
    /\ norm.err

(***************************************************************************)
(* Validation in bulk reconcile.                                           *)
(***************************************************************************)
\* bulk reconcile returned from a fetched snapshot, a collected source being
\* invalid
BulkReturnedInvalid ==
    /\ call.op = "bulk"
    /\ call.pc = "done"
    /\ call.fetched
    /\ \E i \in 1..Len(call.sourceIPs) : InvalidSource(call.sourceIPs[i])

\* C8 as stated: when a collected source fails normalization, bulk reconcile
\* returns the validation error and does not call Update, whatever the
\* desired rule list, the empty list included.
C8_InvalidSourceNoUpdate ==
    BulkReturnedInvalid => call.err = "validate" /\ ~call.updated

\* C8 amended: when a collected source fails normalization, bulk reconcile
\* on a non-empty desired rule list returns the validation error and does
\* not call Update; on an empty desired rule list the sources are not
\* validated and Update is called with the inbound rules of the snapshot.
C8_InvalidSourceNonEmpty ==
    BulkReturnedInvalid =>
        IF call.rules # <<>>
        THEN call.err = "validate" /\ ~call.updated
        ELSE call.updated /\ call.req.InboundRules = call.firewall.InboundRules

\* a bulk reconcile of two desired rules refused for an invalid source that
\* follows a valid one
C8_Witness ==
    /\ BulkReturnedInvalid
    /\ Len(call.rules) = 2
    /\ ~InvalidSource(call.sourceIPs[1])
    /\ call.err = "validate"
    /\ ~call.updated
    /\ call.firewall.InboundRules # <<>>

(***************************************************************************)
(* Properties of the single-IP upsert (Client.AddSSHRule).                 *)
(***************************************************************************)
\* AddSSHRule returned from a fetched snapshot with a valid address
SSHReturned ==
    /\ call.op = "ssh"
    /\ call.pc = "done"
    /\ call.fetched
    /\ ~InvalidSource(call.sourceIP)

\* the rule is a tcp rule of the port
MatchesSSH(r, port) == r.Protocol = "tcp" /\ PortOf(r) = port

\* the first rule of the list matching (tcp, port), 0 when none matches
FirstMatch(inboundRules, port) ==
    IF \E i \in 1..Len(inboundRules) : MatchesSSH(inboundRules[i], port)
    THEN CHOOSE i \in 1..Len(inboundRules) :
             /\ MatchesSSH(inboundRules[i], port)
             /\ \A j \in 1..(i - 1) : ~MatchesSSH(inboundRules[j], port)
    ELSE 0

\* the addresses of a rule, none when it has no sources
AddressesOf(r) == IF r.Sources.nil THEN <<>> ELSE r.Sources.Addresses

\* the address is among the addresses of the rule
HasAddress(r, a) == \E i \in 1..Len(AddressesOf(r)) : AddressesOf(r)[i] = a

\* the last rule of the submitted list is the tcp rule of the port with
\* exactly these addresses
LastRuleIs(addresses) ==
    /\ call.updated
    /\ call.req.InboundRules # <<>>
    /\ MatchesSSH(call.req.InboundRules[Len(call.req.InboundRules)], call.port)
    /\ AddressesOf(call.req.InboundRules[Len(call.req.InboundRules)]) = addresses

\* the decision table on the matched rule m of the snapshot (0: no match)
SSHDecision(m) ==
    IF m = 0
    THEN /\ LastRuleIs(<<Normalized(call.sourceIP)>>)
         /\ Len(call.req.InboundRules) = Len(call.firewall.InboundRules) + 1
    ELSE IF call.replaceExisting
    THEN LastRuleIs(<<Normalized(call.sourceIP)>>)
    ELSE IF HasAddress(call.firewall.InboundRules[m], Normalized(call.sourceIP))
    THEN ~call.updated /\ call.err = "none"
    ELSE LastRuleIs(AddressesOf(call.firewall.InboundRules[m])
                    \o <<Normalized(call.sourceIP)>>)

\* C9: AddSSHRule follows the decision table on the first rule matching
\* (tcp, port): without a match a new tcp rule of the port with exactly the
\* normalized address is appended; REPLACE on a match leaves exactly the
\* normalized address; APPEND on a match without the address leaves the
\* prior addresses in their order followed by it; APPEND on a match with
\* the address changes nothing.
C9_DecisionTable ==
    SSHReturned => SSHDecision(FirstMatch(call.firewall.InboundRules, call.port))

\* an APPEND that put a third address behind the two the matched rule had
C9_Witness ==
    /\ SSHReturned
    /\ call.updated
    /\ ~call.replaceExisting
    /\ FirstMatch(call.firewall.InboundRules, call.port) # 0
    /\ Len(AddressesOf(call.req.InboundRules[Len(call.req.InboundRules)])) = 3

\* the call in flight is an APPEND whose address the matched rule has
AppendOfPresent(c) ==
    /\ c.op = "ssh"
    /\ c.fetched
    /\ ~c.replaceExisting
    /\ ~InvalidSource(c.sourceIP)
    /\ FirstMatch(c.firewall.InboundRules, c.port) # 0
    /\ HasAddress(c.firewall.InboundRules[FirstMatch(c.firewall.InboundRules, c.port)],
                  Normalized(c.sourceIP))

\* C10: an APPEND whose normalized address is already among the addresses
\* of the matched rule returns success without calling Update, and the
\* firewall after its return is the firewall before it.
C10_AppendPresentNoOp ==
    [][(call.pc = "fetched" /\ call'.pc = "done" /\ AppendOfPresent(call))
           => (~call'.updated /\ call'.err = "none" /\ fw' = fw)]_vars

\* an APPEND returned on a rule that had the address behind another one
C10_Witness ==
    /\ call.pc = "done"
    /\ AppendOfPresent(call)
    /\ ~call.updated
    /\ Len(AddressesOf(call.firewall.InboundRules[
               FirstMatch(call.firewall.InboundRules, call.port)])) >= 2

\* the rule is the tcp rule of the port allowing exactly the one address
OnlyAllows(r, port, address) ==
    /\ MatchesSSH(r, port)
    /\ r.Sources = AddressSources(<<address>>)

\* C11: after a successful AddSSHRule in REPLACE mode the submitted inbound
\* list holds one tcp rule of the port, whose sources are exactly the
\* normalized address, and no other tcp rule of the port, whatever tcp rules
\* of the port the snapshot held.
C11_ReplaceDropsAll ==
    (SSHReturned /\ call.replaceExisting /\ call.updated /\ call.err = "none")
        => /\ \E i \in 1..Len(call.req.InboundRules) :
                  OnlyAllows(call.req.InboundRules[i], call.port,
                             Normalized(call.sourceIP))
           /\ \A i, j \in 1..Len(call.req.InboundRules) :
                  (/\ MatchesSSH(call.req.InboundRules[i], call.port)
                   /\ MatchesSSH(call.req.InboundRules[j], call.port))
                      => i = j

\* the previous AddSSHRule changed the rule and this one found nothing to change
ChangedThenNoChange ==
    /\ prev.op = "ssh"
    /\ prev.updated
    /\ prev.err = "none"
    /\ call.op = "ssh"
    /\ call.pc = "done"
    /\ call.fetched
    /\ ~call.updated
    /\ call.err = "none"

\* C12: the result AddSSHRule returns when no rule change was needed differs
\* from the result it returns when the rule was changed.
C12_OutcomesDistinguishable ==
    ChangedThenNoChange => Returned(call) # Returned(prev)

\* the list without its m-th element (the whole list when m = 0)
Without(s, m) ==
    IF m = 0 THEN s
    ELSE [i \in 1..(Len(s) - 1) |-> IF i < m THEN s[i] ELSE s[i + 1]]

\* AddSSHRule called Firewalls.Update with call.req
SSHSubmitted == call.op = "ssh" /\ call.updated

C14_ValidateBeforeRead ==
    (call.op = "ssh" /\ call.pc = "done" /\ call.err = "validate")
        => ~call.fetched /\ ~call.updated

(***************************************************************************)
(* Failures of the remote store.                                           *)
(***************************************************************************)
\* C20: a call whose GetFirewall failed returns the error without calling
\* Update; a call whose Update failed returns an error; in both cases the
\* firewall is left as it was, and a call changes the firewall only by the
\* one request it submitted.
C20_StoreFailuresSurfaced ==
    [][(call' # call /\ call'.pc = "done")
           => /\ ~call'.fetched
                    => (Returned(call') = "get" /\ ~call'.updated /\ fw' = fw)
              /\ call'.updated
                    => \/ Returned(call') = "none" /\ fw' = ApplyUpdate(call'.req)
                       \/ Returned(call') = "update" /\ fw' = fw
              /\ ~call'.updated => fw' = fw]_vars

\* a bulk reconcile whose Update failed, after a single-IP update had
\* replaced the firewall
C20_Witness ==
    /\ call.op = "bulk"
    /\ call.pc = "done"
    /\ call.updated
    /\ Returned(call) = "update"
    /\ prev.op = "ssh"
    /\ fw = call.firewall
    /\ fw # ApplyUpdate(call.req)

(***************************************************************************)
(* Properties of the drivers: dry run, providers, scheduling.              *)
(***************************************************************************)
\* C15: in dry-run mode no step of the daemon, of oneshot or of
\* allow-current-ip calls Firewalls.Update: no client call of the process has
\* submitted a request, and the firewall stays as it is.
C15_DryRunNoUpdate ==
    [][proc.dryRun
           => /\ fw' = fw
              /\ ~call'.updated
              /\ \A i \in 1..MaxCycles : ~cycles'[i].call.updated]_vars

\* a dry-run daemon two of whose runs collected addresses and were logged
\* as successful
C15_Witness ==
    /\ proc.command = "daemon"
    /\ proc.dryRun
    /\ \A i \in 1..2 :
           /\ cycles[i].pc = "logged"
           /\ cycles[i].err = "none"
           /\ cycles[i].allIPs # <<>>

\* the run of the service has returned, both providers having answered
ReturnedWithSources(c) ==
    /\ c.pc \in {"returned", "logged"}
    /\ c.cf.called /\ ~c.cf.err
    /\ c.nd.called /\ ~c.nd.err

\* C16: a dry run fetches the snapshot, runs the reconciler and fails where
\* a live run on the same inputs fails: with an invalid collected source it
\* returns the validation error.
C16_DryRunReconciles ==
    \A i \in 1..MaxCycles :
        (proc.dryRun /\ ReturnedWithSources(cycles[i]))
            => /\ cycles[i].call.fetched
               /\ (\E k \in 1..Len(cycles[i].allIPs) :
                       InvalidSource(cycles[i].allIPs[k]))
                      => cycles[i].err # "none"

\* the run ended on the failure of a source provider
ProviderAbort(c) == c.pc \in {"returned", "logged"} /\ c.err \in {"cloudflare", "netdata"}

\* C17: a run of the service ends on a provider failure only when both
\* providers failed; when one provider answered, the run goes on with its
\* addresses.
C17_AbortOnlyIfAllFail ==
    \A i \in 1..MaxCycles :
        ProviderAbort(cycles[i])
            => /\ cycles[i].cf.called /\ cycles[i].cf.err
               /\ cycles[i].nd.called /\ cycles[i].nd.err

\* the runs of the scheduled job that are in progress
Running == {i \in 1..MaxCycles : cycles[i].pc \in {"started", "collected", "fetched", "returned"}}

\* C18: in daemon mode at most one run of the firewall-update job is in
\* progress at any time.
C18_NoOverlap ==
    proc.command = "daemon" => Cardinality(Running) <= 1

\* C19: the step that logs a failed run of the scheduled job leaves the
\* daemon as it is, running with its job scheduled, so that the cron can
\* fire the next run.
C19_FailedCycleOnlyLogged ==
    [][\A i \in 1..MaxCycles :
           (/\ proc.command = "daemon"
            /\ cycles[i].pc = "returned"
            /\ cycles'[i].pc = "logged"
            /\ cycles[i].err # "none")
               => /\ proc' = proc
                  /\ proc.entries = 1
                  /\ (proc.pc = "running" /\ proc.fired < MaxCycles)
                         => ENABLED Cron_Fire]_vars

\* a daemon still running, its first run logged as failed and its second
\* run started
C19_Witness ==
    /\ proc.command = "daemon"
    /\ proc.pc = "running"
    /\ cycles[1].pc = "logged"
    /\ cycles[1].err # "none"
    /\ cycles[2].pc = "started"

(***************************************************************************)
(* Properties of the collected sources and of the managed ports.           *)
(***************************************************************************)
\* the list without the entries that occurred before in it
FirstOccurrences(s) ==
    IF s = <<>> THEN <<>>
    ELSE [k \in 1..Cardinality({i \in 1..Len(s) : \A j \in 1..(i - 1) : s[j] # s[i]}) |->
             s[CHOOSE i \in 1..Len(s) :
                   /\ \A j \in 1..(i - 1) : s[j] # s[i]
                   /\ Cardinality({h \in 1..i : \A j \in 1..(h - 1) : s[j] # s[h]}) = k]]

\* no entry occurs twice in the list
NoRepeat(s) == \A i, j \in 1..Len(s) : s[i] = s[j] => i = j

\* the run of the service has called the client
ClientCalled(c) == c.call.op = "bulk"

\* C21: the source list the service hands to the client is the Cloudflare
\* list followed by the Netdata list with repeated entries removed, the
\* first occurrence kept, so that no address occurs twice in it.
C21_SourcesDeduplicated ==
    \A i \in 1..MaxCycles :
        ClientCalled(cycles[i])
            => /\ cycles[i].call.sourceIPs
                      = FirstOccurrences(cycles[i].cf.ips \o cycles[i].nd.ips)
               /\ NoRepeat(cycles[i].call.sourceIPs)
               /\ \A k \in 1..Len(cycles[i].call.rules) :
                      NoRepeat(cycles[i].call.rules[k].Sources)

\* a desired rule names the port and the protocol of the inbound rule
Desired(r, rules) ==
    \E i \in 1..Len(rules) : rules[i].Port = PortOf(r) /\ rules[i].Protocol = r.Protocol

\* C25: bulk reconcile rewrites only the inbound rules whose port and
\* protocol are those of a desired rule: every other rule of the snapshot,
\* one on a desired port number with another protocol included, is in the
\* submitted list.
C25_ManagedIsPortAndProtocol ==
    BulkSubmitted =>
        \A i \in 1..Len(call.firewall.InboundRules) :
            ~Desired(call.firewall.InboundRules[i], call.rules)
                => \E k \in 1..Len(call.req.InboundRules) :
                       call.req.InboundRules[k] = call.firewall.InboundRules[i]

\* the sources of a rule that are not addresses, none when it has no sources
OtherSources(r) ==
    IF r.Sources.nil
    THEN [Tags |-> <<>>, DropletIDs |-> <<>>, LoadBalancerUIDs |-> <<>>,
          KubernetesIDs |-> <<>>]
    ELSE [Tags |-> r.Sources.Tags, DropletIDs |-> r.Sources.DropletIDs,
          LoadBalancerUIDs |-> r.Sources.LoadBalancerUIDs,
          KubernetesIDs |-> r.Sources.KubernetesIDs]

\* C27: the rule AddSSHRule rewrites in APPEND mode keeps the tag, droplet,
\* load balancer and Kubernetes sources of the matched rule.
C27_AppendKeepsOtherSources ==
    (/\ SSHReturned
     /\ call.updated
     /\ ~call.replaceExisting
     /\ FirstMatch(call.firewall.InboundRules, call.port) # 0)
        => OtherSources(call.req.InboundRules[Len(call.req.InboundRules)])
               = OtherSources(call.firewall.InboundRules[
                                  FirstMatch(call.firewall.InboundRules, call.port)])

\* C28: an APPEND with the address and the port of the successful APPEND
\* before it, on the firewall that one left, submits nothing and returns
\* success.
C28_AppendIdempotent ==
    (/\ SSHReturned
     /\ ~call.replaceExisting
     /\ prev.op = "ssh"
     /\ ~prev.replaceExisting
     /\ prev.sourceIP = call.sourceIP
     /\ prev.port = call.port
     /\ call.firewall.InboundRules = prev.InboundRules)
        => ~call.updated /\ Returned(call) = "none"

\* the text before the "/" of a CIDR block
CIDRAddress(s) == SubSeq(s, 1, IndexByte(s, "/") - 1)

\* the number after the "/" of a CIDR block
CIDRPrefixLen(s) == DecValue(Suffix(s, IndexByte(s, "/") + 1))

\* C30: every string the normalizer returns is a valid CIDR block, and the
\* one returned for a bare address has the full bit length of the family
\* its address text parses in as prefix length: it names that host only.
C30_NormalizedHostCIDR ==
    (norm.pc = "returned" /\ ~norm.err)
        => \A i \in 1..Len(norm.out) :
               /\ ParseCIDROk(norm.out[i])
               /\ (BareIPv4(norm.sources[i]) \/ BareIPv6(norm.sources[i]))
                      => CIDRPrefixLen(norm.out[i])
                             = AddrBitLen(CIDRAddress(norm.out[i]))

(***************************************************************************)
(* The snapshot and the console.                                           *)
(***************************************************************************)
\* the inbound rule is in the firewall
HasRule(f, r) == \E i \in 1..Len(f.InboundRules) : f.InboundRules[i] = r

\* the console rule was added after the bulk reconcile had fetched its snapshot
EditedSinceSnapshot(c, f) ==
    /\ c.op = "bulk"
    /\ c.fetched
    /\ HasRule(f, ConsoleRule)
    /\ ~HasRule(c.firewall, ConsoleRule)

\* C26: when the firewall was edited in the console after GetFirewall and
\* before Update, the Update that succeeds replaces the firewall by the rule
\* set and the tags computed from the stale snapshot: the rule and the tag
\* added in the console are lost.
C26_StaleSnapshotOverwrites ==
    [][(/\ call.pc = "fetched"
        /\ EditedSinceSnapshot(call, fw)
        /\ call'.updated
        /\ Returned(call') = "none")
           => /\ call'.stale
              /\ ~HasRule(fw', ConsoleRule)
              /\ fw'.Tags = call.firewall.Tags
              /\ fw'.InboundRules = call'.req.InboundRules]_vars

\* a bulk reconcile of a desired rule that replaced a firewall edited after
\* its snapshot: the console rule is gone
C26_Witness ==
    /\ BulkSubmitted
    /\ call.rules # <<>>
    /\ Returned(call) = "none"
    /\ call.stale
    /\ ~HasRule(call.firewall, ConsoleRule)
    /\ ~HasRule(fw, ConsoleRule)
    /\ fw = ApplyUpdate(call.req)

(***************************************************************************)
(* Properties of the configuration.                                        *)
(***************************************************************************)
\* the port is outside 1..65535 or the protocol is not tcp, udp or icmp
InvalidRule(r) ==
    r.Port < 1 \/ r.Port > 65535 \/ (r.Protocol # "tcp" /\ r.Protocol # "udp" /\ r.Protocol # "icmp")

\* C23: a command whose configuration has an inbound rule with a port
\* outside 1..65535 or a protocol other than tcp, udp and icmp ends in the
\* error of config loading, and has asked no provider and has not called the
\* firewall.
C23_InvalidConfigRejected ==
    (/\ proc.command # "none"
     /\ \E i \in 1..Len(proc.rules) : InvalidRule(proc.rules[i]))
        => /\ proc.pc \in {"start", "exited"}
           /\ proc.pc = "exited" => proc.err = "load"
           /\ cycles = NoCycles
    /\ retry = NoRetry
    /\ uniq = NoUniq
           /\ call = NoCall

\* a daemon that ended on a configuration whose second inbound rule has a
\* port too large
C23_Witness ==
    /\ proc.command = "daemon"
    /\ proc.pc = "exited"
    /\ proc.err = "load"
    /\ proc.complete
    /\ Len(proc.rules) = 2
    /\ ~InvalidRule(proc.rules[1])
    /\ proc.rules[2].Port > 65535

(***************************************************************************)
(* Properties of the shutdown of the daemon.                               *)
(***************************************************************************)
\* some run of the job has its firewall update in some step of the model
UpdateIssued(i) ==
    /\ cycles[i].pc = "fetched"
    /\ cycles'[i].pc = "returned"

\* C29: once the daemon stops its scheduler no run of the job starts;
\* Daemon.Start returns only when no run is in progress or the stop timeout
\* has fired; and after Daemon.Start returned without the timeout no step
\* issues a firewall update or changes the firewall.
C29_OrderlyShutdown ==
    [][/\ (proc.command = "daemon" /\ proc.pc \in {"stopping", "stopped", "exited"})
              => \A i \in 1..MaxCycles :
                     cycles[i].pc = "idle" => cycles'[i].pc = "idle"
       /\ (proc.pc = "stopping" /\ proc'.pc = "stopped")
              => (Running = {} \/ proc'.timedOut)
       /\ (proc.command = "daemon" /\ proc.pc \in {"stopped", "exited"} /\ ~proc.timedOut)
              => /\ fw' = fw
                 /\ Running = {}
                 /\ \A i \in 1..MaxCycles : ~UpdateIssued(i)]_vars

\* Daemon.Start has returned without the timeout and both runs of the job
\* are over, one of them having updated the firewall
C29_Witness ==
    /\ proc.command = "daemon"
    /\ proc.pc = "stopped"
    /\ ~proc.timedOut
    /\ \E i \in 1..MaxCycles :
           /\ cycles[i].pc = "logged"
           /\ cycles[i].call.updated
    /\ proc.fired = MaxCycles

(***************************************************************************)
(* Properties of the retry wrappers.                                       *)
(***************************************************************************)
\* every one of the first n returns of the wrapped function is an error
AllFailed(results, n) == \A k \in 1..n : results[k].err

\* C22: a retry wrapper called with maxRetries = n >= 1 never calls the
\* wrapped function more than n times; when it returns without error it
\* returns what the first successful call returned, every call before it
\* having failed; it returns an error only after n failed calls or when the
\* context was cancelled during the wait between two attempts; and once it
\* has returned it makes no further call.
C22_RetryBounded ==
    [][retry'.maxRetries >= 1
           => /\ Len(retry'.results) <= retry'.maxRetries
              /\ retry.pc = "returned" => retry' = retry
              /\ (retry.pc # "returned" /\ retry'.pc = "returned" /\ retry'.err = "none")
                     => /\ Len(retry'.results) >= 1
                        /\ ~retry'.results[Len(retry'.results)].err
                        /\ retry'.ips = retry'.results[Len(retry'.results)].ips
                        /\ AllFailed(retry'.results, Len(retry'.results) - 1)
              /\ (retry.pc # "returned" /\ retry'.pc = "returned" /\ retry'.err # "none")
                     => \/ /\ Len(retry'.results) = retry'.maxRetries
                           /\ AllFailed(retry'.results, retry'.maxRetries)
                        \/ /\ retry.pc = "waiting"
                           /\ retry.cancelled
                           /\ retry'.err = "ctx"]_vars

\* a wrapper called with maxRetries = 3 has returned the result of its third
\* call, the first two having failed
C22_Witness ==
    /\ retry.pc = "returned"
    /\ retry.maxRetries = 3
    /\ retry.err = "none"
    /\ Len(retry.results) = 3
    /\ retry.results[1].err
    /\ retry.results[2].err
    /\ retry.ips = <<V6>>

(***************************************************************************)
(* Properties of removeDuplicates.                                         *)
(***************************************************************************)
\* the position of the first occurrence of x in the list
FirstIndex(s, x) == CHOOSE i \in 1..Len(s) : s[i] = x /\ \A j \in 1..(i - 1) : s[j] # x

\* C24: the list removeDuplicates returns has no repeated element, has the
\* elements of its input and no other, and has them in the order of their
\* first occurrences in the input; called on a list it returned, it returns
\* that list.
C24_RemoveDuplicates ==
    [][uniq'.pc # "idle"
           => /\ NoRepeat(uniq'.unique)
              /\ {uniq'.unique[i] : i \in 1..Len(uniq'.unique)}
                     = {uniq'.ips[i] : i \in 1..Len(uniq'.ips)}
              /\ \A i, j \in 1..Len(uniq'.unique) :
                     i < j => FirstIndex(uniq'.ips, uniq'.unique[i])
                                  < FirstIndex(uniq'.ips, uniq'.unique[j])
              /\ uniq'.pc = "again" => uniq'.unique = uniq.unique]_vars

\* removeDuplicates was called again on the two addresses it had returned
\* for a list of four: the same two addresses in the same order
C24_Witness ==
    /\ uniq.pc = "again"
    /\ uniq.first = <<V6, V4, V6, V4>>
    /\ uniq.ips = <<V6, V4>>
    /\ uniq.unique = <<V6, V4>>

====
